---- MODULE Spec2Model ----
(***************************************************************************)
(* A model of hottext (src/src/lib.rs): the HotText store of key -> set of *)
(* template lines, its write operations (insert, extend, load_hashmap),    *)
(* its read operations (get_line_raw, get_lines_raw, get_line) and the     *)
(* select -> compile -> render pipeline of render_line.                    *)
(*                                                                         *)
(* Strings are sequences of one-character strings, so that compiling and   *)
(* rendering a line are computed, not assumed.                             *)
(***************************************************************************)
EXTENDS Integers, Sequences, FiniteSets, TLC

VARIABLES line_pairs, pre, last, named, supplied, emptied, prev

vars == <<line_pairs, pre, last, named, supplied, emptied, prev>>

(***************************************************************************)
(* Bounds of the model.                                                    *)
(***************************************************************************)
\* the largest set of lines passed to one extend call
MaxExtend == 2
\* the largest set of lines one key of a load_hashmap argument carries
MaxLoad == 2
\* the most pieces (text characters, placeholders) a line of the rendering runs is made of
MaxPieces == 3

(***************************************************************************)
(* The keys and lines the operations are called with.                      *)
(***************************************************************************)
Keys == {"killed", "enter"}

\* "W!"  : a line without placeholders
LinePlain == <<"W", "!">>
\* "{{{n}}}@{{l}}."  : an unescaped and an escaped placeholder
LineMixed == <<"{", "{", "{", "n", "}", "}", "}", "@", "{", "{", "l", "}", "}", ".">>
\* "H{{n"  : an unbalanced placeholder delimiter
LineBad == <<"H", "{", "{", "n">>

Lines == {LinePlain, LineMixed, LineBad}

\* render data: placeholder name -> value
DataFull == (<<"e">> :> <<"a", "&">>) @@ (<<"n">> :> <<"N">>) @@ (<<"l">> :> <<"<", "b">>)
DataPart == (<<"n">> :> <<"N">>)
DataNone == [x \in {} |-> <<>>]

Datas == {DataFull, DataPart, DataNone}

(***************************************************************************)
(* Values returned by the operations.                                      *)
(***************************************************************************)
NoTemplate == <<>>

None == [tag |-> "None", val |-> <<>>, set |-> {}, err |-> "", tpl |-> NoTemplate]

Some(v) == [tag |-> "Some", val |-> v, set |-> {}, err |-> "", tpl |-> NoTemplate]

SomeSet(s) == [tag |-> "Some", val |-> <<>>, set |-> s, err |-> "", tpl |-> NoTemplate]

Ok(v) == [tag |-> "Ok", val |-> v, set |-> {}, err |-> "", tpl |-> NoTemplate]

OkUnit == [tag |-> "Ok", val |-> <<>>, set |-> {}, err |-> "", tpl |-> NoTemplate]

OkTemplate(t) == [tag |-> "Ok", val |-> <<>>, set |-> {}, err |-> "", tpl |-> t]

Err(e) == [tag |-> "Err", val |-> <<>>, set |-> {}, err |-> e, tpl |-> NoTemplate]

\* the error struct of the crate
TemplateCompileError == "TemplateCompileError"
\* the errors of the mustache crate, boxed by the ? operator
MustacheParserError == "mustache::Error::Parser"
MustacheRenderError == "mustache::Error::Render"

(***************************************************************************)
(* The store: a HashMap<String, HashSet<String>>, here a function whose    *)
(* domain is the set of keys present.                                      *)
(***************************************************************************)
EmptyMap == [k \in {} |-> {}]

\* HashMap::insert(key, value)
MapInsert(lp, key, value) == [k \in DOMAIN lp \cup {key} |-> IF k = key THEN value ELSE lp[k]]

new == EmptyMap

insert_overwrite(lp, key, line) == MapInsert(lp, key, {line})

insert_no_line(lp, key, line) ==
    IF key \in DOMAIN lp
    THEN MapInsert(lp, key, lp[key] \cup {line})
    ELSE MapInsert(lp, key, {})

insert(lp, key, line) ==
    IF key \in DOMAIN lp
    THEN MapInsert(lp, key, lp[key] \cup {line})
    ELSE MapInsert(lp, key, {} \cup {line})

extend_replace(lp, key, new_lines) == MapInsert(lp, key, new_lines)

extend(lp, key, new_lines) ==
    IF key \in DOMAIN lp
    THEN MapInsert(lp, key, lp[key] \cup new_lines)
    ELSE MapInsert(lp, key, new_lines)

RECURSIVE load_overwrite(_, _)
load_overwrite(lp, m) ==
    IF DOMAIN m = {}
    THEN lp
    ELSE LET key == CHOOSE k \in DOMAIN m : TRUE
             rest == [k \in DOMAIN m \ {key} |-> m[k]]
         IN  load_overwrite(MapInsert(lp, key, m[key]), rest)

\* the for loop over the argument's entries, in the order the HashMap yields them
RECURSIVE load_hashmap(_, _)
load_hashmap(lp, m) ==
    IF DOMAIN m = {}
    THEN lp
    ELSE LET key == CHOOSE k \in DOMAIN m : TRUE
             new_lines == m[key]
             rest == [k \in DOMAIN m \ {key} |-> m[k]]
             next == IF key \in DOMAIN lp
                     THEN MapInsert(lp, key, lp[key] \cup new_lines)
                     ELSE MapInsert(lp, key, new_lines)
         IN  load_hashmap(next, rest)

(***************************************************************************)
(* Random selection: lines.iter().choose(&mut self.rng).cloned().          *)
(* The HashSet yields its elements in an unspecified order; the random     *)
(* source yields an index below the number of elements.                    *)
(***************************************************************************)
\* the orders in which a HashSet can yield its elements
IterOrders(S) ==
    {o \in [1..Cardinality(S) -> S] : \A i, j \in 1..Cardinality(S) : o[i] = o[j] => i = j}

\* the indices the random source can yield for n elements (one draw of no use for none)
gen_index(n) == IF n = 0 THEN {0} ELSE 0..(n - 1)

\* IteratorRandom::choose on an iterator of known length: the idx-th element
choose(order, idx) == IF Len(order) = 0 THEN None ELSE Some(order[idx + 1])

\* the iteration orders of the set get_line_raw selects from
KeyOrders(lp, key) == IF key \in DOMAIN lp THEN IterOrders(lp[key]) ELSE {<<>>}

\* the indices the random source can yield when get_line_raw selects
Draws(lp, key) == IF key \in DOMAIN lp THEN gen_index(Cardinality(lp[key])) ELSE {0}

get_line_raw_first(lp, key, order, idx) ==
    IF key \in DOMAIN lp THEN choose(order, 0) ELSE None

get_line_raw_default(lp, key, order, idx) ==
    IF key \in DOMAIN lp
    THEN IF choose(order, idx) = None THEN Some(<<>>) ELSE choose(order, idx)
    ELSE None

get_line_raw(lp, key, order, idx) ==
    IF key \in DOMAIN lp THEN choose(order, idx) ELSE None

get_lines_raw_empty(lp, key) == IF key \in DOMAIN lp THEN SomeSet(lp[key]) ELSE SomeSet({})

get_lines_raw(lp, key) == IF key \in DOMAIN lp THEN SomeSet(lp[key]) ELSE None

(***************************************************************************)
(* Templates: mustache::compile_str and Template::render_to_string.        *)
(* A template is a sequence of tokens: literal text, an escaped tag        *)
(* {{name}} and an unescaped tag {{{name}}}.                               *)
(***************************************************************************)
Text(s) == [kind |-> "Text", s |-> s]

ETag(name) == [kind |-> "ETag", s |-> name]

UTag(name) == [kind |-> "UTag", s |-> name]

Open2 == <<"{", "{">>

Close2 == <<"}", "}">>

Open3 == <<"{", "{", "{">>

Close3 == <<"}", "}", "}">>

StartsWith(s, i, pat) ==
    /\ i + Len(pat) - 1 <= Len(s)
    /\ \A j \in 1..Len(pat) : s[i + j - 1] = pat[j]

\* the position of the first "}" at or after i, or Len(s) + 1
NameEnd(s, i) ==
    LET c == {j \in i..Len(s) : s[j] = "}"}
    IN  IF c = {} THEN Len(s) + 1 ELSE CHOOSE j \in c : \A j2 \in c : j <= j2

RECURSIVE Scan(_, _, _)
Scan(s, i, acc) ==
    IF i > Len(s)
    THEN [ok |-> TRUE, tokens |-> acc]
    ELSE IF StartsWith(s, i, Open3)
    THEN LET e == NameEnd(s, i + 3)
         IN  IF e > i + 3 /\ StartsWith(s, e, Close3)
             THEN Scan(s, e + 3, Append(acc, UTag(SubSeq(s, i + 3, e - 1))))
             ELSE [ok |-> FALSE, tokens |-> <<>>]
    ELSE IF StartsWith(s, i, Open2)
    THEN LET e == NameEnd(s, i + 2)
         IN  IF e > i + 2 /\ StartsWith(s, e, Close2)
             THEN Scan(s, e + 2, Append(acc, ETag(SubSeq(s, i + 2, e - 1))))
             ELSE [ok |-> FALSE, tokens |-> <<>>]
    ELSE Scan(s, i + 1, Append(acc, Text(<<s[i]>>)))

compile_str(raw) ==
    LET r == Scan(raw, 1, <<>>)
    IN  IF r.ok THEN OkTemplate(r.tokens) ELSE Err(MustacheParserError)

EscapeChar(c) ==
    IF c = "&" THEN <<"&", "a", "m", "p", ";">>
    ELSE IF c = "<" THEN <<"&", "l", "t", ";">>
    ELSE IF c = ">" THEN <<"&", "g", "t", ";">>
    ELSE <<c>>

RECURSIVE Escape(_)
Escape(v) == IF v = <<>> THEN <<>> ELSE EscapeChar(Head(v)) \o Escape(Tail(v))

\* the names the tags of a template refer to
TagNames(tpl) == {tpl[i].s : i \in {j \in 1..Len(tpl) : tpl[j].kind # "Text"}}

RECURSIVE RenderTokens(_, _, _)
RenderTokens(tpl, i, data) ==
    IF i > Len(tpl)
    THEN <<>>
    ELSE LET t == tpl[i]
             v == IF t.kind = "Text" THEN t.s
                  ELSE IF t.s \notin DOMAIN data THEN <<>>
                  ELSE IF t.kind = "UTag" THEN data[t.s]
                  ELSE Escape(data[t.s])
         IN  v \o RenderTokens(tpl, i + 1, data)

\* strict: whether a tag whose name the data lacks is a render error (else it renders empty)
render_to_string(tpl, data, strict) ==
    IF strict /\ ~(TagNames(tpl) \subseteq DOMAIN data)
    THEN Err(MustacheRenderError)
    ELSE Ok(RenderTokens(tpl, 1, data))

(***************************************************************************)
(* get_line and render_line: select, compile, render, each step's error    *)
(* returned by the ? operator. compiled and rendered tell which steps ran. *)
(***************************************************************************)
get_line(lp, key, order, idx) ==
    LET raw_line == get_line_raw(lp, key, order, idx)
    IN  IF raw_line.tag = "None"
        THEN Err(TemplateCompileError)
        ELSE compile_str(raw_line.val)

render_line_fallback(lp, key, data, order, idx, strict) ==
    LET raw_line == get_line_raw(lp, key, order, idx)
    IN  IF raw_line.tag = "None"
        THEN [ret |-> Err(TemplateCompileError), raw_line |-> raw_line,
              compiled |-> FALSE, rendered |-> FALSE]
        ELSE LET template == compile_str(raw_line.val)
             IN  IF template.tag = "Err"
                 THEN [ret |-> Ok(raw_line.val), raw_line |-> raw_line,
                       compiled |-> TRUE, rendered |-> FALSE]
                 ELSE [ret |-> render_to_string(template.tpl, data, strict), raw_line |-> raw_line,
                       compiled |-> TRUE, rendered |-> TRUE]

render_line_unrendered(lp, key, data, order, idx, strict) ==
    LET raw_line == get_line_raw(lp, key, order, idx)
    IN  IF raw_line.tag = "None"
        THEN [ret |-> Err(TemplateCompileError), raw_line |-> raw_line,
              compiled |-> FALSE, rendered |-> FALSE]
        ELSE LET template == compile_str(raw_line.val)
             IN  IF template.tag = "Err"
                 THEN [ret |-> template, raw_line |-> raw_line,
                       compiled |-> TRUE, rendered |-> FALSE]
                 ELSE [ret |-> Ok(raw_line.val), raw_line |-> raw_line,
                       compiled |-> TRUE, rendered |-> TRUE]

render_line(lp, key, data, order, idx, strict) ==
    LET raw_line == get_line_raw(lp, key, order, idx)
    IN  IF raw_line.tag = "None"
        THEN [ret |-> Err(TemplateCompileError), raw_line |-> raw_line,
              compiled |-> FALSE, rendered |-> FALSE]
        ELSE LET template == compile_str(raw_line.val)
             IN  IF template.tag = "Err"
                 THEN [ret |-> template, raw_line |-> raw_line,
                       compiled |-> TRUE, rendered |-> FALSE]
                 ELSE [ret |-> render_to_string(template.tpl, data, strict), raw_line |-> raw_line,
                       compiled |-> TRUE, rendered |-> TRUE]

(***************************************************************************)
(* The state machine. last records the latest call, its arguments and what *)
(* it returned; pre is the store as it was before that call.               *)
(* named, supplied, emptied, prev record the history of the calls:         *)
(*   named     the keys some write was called with                         *)
(*   supplied  per key, the lines the writes were called with              *)
(*   emptied   the keys some write was called with together with an empty  *)
(*             set of lines                                                *)
(*   prev      when the latest two calls are both get_line_raw, the key    *)
(*             and the result of the earlier one                           *)
(***************************************************************************)
NoPrev == [key |-> "", ret |-> None]

\* raw_line: the line render_line selected; compiled, rendered: the steps it ran
Call(op, key, line, lines, map, data, ret, raw_line, compiled, rendered) ==
    [op |-> op, key |-> key, line |-> line, lines |-> lines, map |-> map, data |-> data,
     ret |-> ret, raw_line |-> raw_line, compiled |-> compiled, rendered |-> rendered]

ExtendArgs == {ls \in SUBSET Lines : Cardinality(ls) <= MaxExtend}

LoadArgs ==
    UNION {[d -> {ls \in SUBSET Lines : Cardinality(ls) <= MaxLoad}] : d \in SUBSET Keys}

Init ==
    /\ line_pairs = new
    /\ pre = new
    /\ last = Call("new", "", <<>>, {}, EmptyMap, DataNone, OkUnit, None, FALSE, FALSE)
    /\ named = {}
    /\ supplied = [k \in Keys |-> {}]
    /\ emptied = {}
    /\ prev = NoPrev

Insert ==
    \E key \in Keys, line \in Lines :
        /\ line_pairs' = insert(line_pairs, key, line)
        /\ pre' = line_pairs
        /\ last' = Call("insert", key, line, {}, EmptyMap, DataNone, OkUnit, None, FALSE, FALSE)
        /\ named' = named \cup {key}
        /\ supplied' = [supplied EXCEPT ![key] = @ \cup {line}]
        /\ prev' = NoPrev
        /\ UNCHANGED emptied

Extend ==
    \E key \in Keys, new_lines \in ExtendArgs :
        /\ line_pairs' = extend(line_pairs, key, new_lines)
        /\ pre' = line_pairs
        /\ last' = Call("extend", key, <<>>, new_lines, EmptyMap, DataNone, OkUnit, None, FALSE, FALSE)
        /\ named' = named \cup {key}
        /\ supplied' = [supplied EXCEPT ![key] = @ \cup new_lines]
        /\ emptied' = IF new_lines = {} THEN emptied \cup {key} ELSE emptied
        /\ prev' = NoPrev

LoadHashmap ==
    \E m \in LoadArgs :
        /\ line_pairs' = load_hashmap(line_pairs, m)
        /\ pre' = line_pairs
        /\ last' = Call("load_hashmap", "", <<>>, {}, m, DataNone, OkUnit, None, FALSE, FALSE)
        /\ named' = named \cup DOMAIN m
        /\ supplied' = [k \in Keys |-> IF k \in DOMAIN m THEN supplied[k] \cup m[k]
                                       ELSE supplied[k]]
        /\ emptied' = emptied \cup {k \in DOMAIN m : m[k] = {}}
        /\ prev' = NoPrev

\* the iteration order and the random index are inputs of every selecting call
GetLineRaw ==
    \E key \in Keys :
        \E ret \in {get_line_raw(line_pairs, key, order, idx) :
                        order \in KeyOrders(line_pairs, key), idx \in Draws(line_pairs, key)} :
            /\ last' = Call("get_line_raw", key, <<>>, {}, EmptyMap, DataNone, ret, None, FALSE, FALSE)
            /\ pre' = line_pairs
            /\ prev' = IF last.op = "get_line_raw"
                       THEN [key |-> last.key, ret |-> last.ret]
                       ELSE NoPrev
            /\ UNCHANGED <<line_pairs, named, supplied, emptied>>

GetLinesRaw ==
    \E key \in Keys :
        /\ last' = Call("get_lines_raw", key, <<>>, {}, EmptyMap, DataNone,
                        get_lines_raw(line_pairs, key), None, FALSE, FALSE)
        /\ pre' = line_pairs
        /\ prev' = NoPrev
        /\ UNCHANGED <<line_pairs, named, supplied, emptied>>

GetLine ==
    \E key \in Keys :
        \E ret \in {get_line(line_pairs, key, order, idx) :
                        order \in KeyOrders(line_pairs, key), idx \in Draws(line_pairs, key)} :
            /\ last' = Call("get_line", key, <<>>, {}, EmptyMap, DataNone, ret, None, FALSE, FALSE)
            /\ pre' = line_pairs
            /\ prev' = NoPrev
            /\ UNCHANGED <<line_pairs, named, supplied, emptied>>

RenderLine ==
    \E key \in Keys, data \in Datas :
        \E r \in {render_line(line_pairs, key, data, order, idx, strict) :
                      order \in KeyOrders(line_pairs, key), idx \in Draws(line_pairs, key),
                      strict \in BOOLEAN} :
            /\ last' = Call("render_line", key, <<>>, {}, EmptyMap, data,
                            r.ret, r.raw_line, r.compiled, r.rendered)
            /\ pre' = line_pairs
            /\ prev' = NoPrev
            /\ UNCHANGED <<line_pairs, named, supplied, emptied>>

Next ==
    \/ Insert
    \/ Extend
    \/ LoadHashmap
    \/ GetLineRaw
    \/ GetLinesRaw
    \/ GetLine
    \/ RenderLine

Spec == Init /\ [][Next]_vars

\* the store driven by its insert and extend calls alone
NextInsertExtend ==
    \/ Insert
    \/ Extend

SpecInsertExtend == Init /\ [][NextInsertExtend]_vars

(***************************************************************************)
(* Rendering runs: a store holding one line under one key, the line made   *)
(* of at most MaxPieces pieces, as built by tests::format_line, and the    *)
(* calls that compile or render it.                                        *)
(***************************************************************************)
Pieces ==
    {<<"K">>, <<"&">>,
     Open3 \o <<"e">> \o Close3, Open2 \o <<"e">> \o Close2,
     Open3 \o <<"n">> \o Close3, Open2 \o <<"l">> \o Close2,
     <<"{", "{", "n">>}

RECURSIVE Concats(_)
Concats(n) ==
    IF n = 0
    THEN {<<>>}
    ELSE LET shorter == Concats(n - 1)
         IN  shorter \cup {x \o p : x \in shorter, p \in Pieces}

Templates == Concats(MaxPieces)

InitRender ==
    \E line \in Templates :
        /\ line_pairs = insert(new, "killed", line)
        /\ pre = new
        /\ last = Call("insert", "killed", line, {}, EmptyMap, DataNone, OkUnit, None, FALSE, FALSE)
        /\ named = {"killed"}
        /\ supplied = [k \in Keys |-> IF k = "killed" THEN {line} ELSE {}]
        /\ emptied = {}
        /\ prev = NoPrev

NextRender ==
    \/ GetLine
    \/ RenderLine

SpecRender == InitRender /\ [][NextRender]_vars

(***************************************************************************)
(* The properties.                                                         *)
(***************************************************************************)
\* the set a key holds in a store, the empty set when the key is absent
SetOf(lp, key) == IF key \in DOMAIN lp THEN lp[key] ELSE {}

\* every key but those of ks is present in both stores or in neither, with the same set
OthersKept(ks) ==
    \A k \in Keys \ ks :
        /\ k \in DOMAIN line_pairs <=> k \in DOMAIN pre
        /\ SetOf(line_pairs, k) = SetOf(pre, k)

\* C1: insert(key, line) maps an absent key to {line} and a present key to its
\* old set plus line, keeps every other key's set, and a second call with the
\* same pair leaves the store as the first call left it.
InsertMergesAndIsIdempotent ==
    last.op = "insert" =>
        /\ last.key \in DOMAIN line_pairs
        /\ line_pairs[last.key] = SetOf(pre, last.key) \cup {last.line}
        /\ last.key \notin DOMAIN pre => line_pairs[last.key] = {last.line}
        /\ OthersKept({last.key})
        /\ insert(line_pairs, last.key, last.line) = line_pairs
        /\ last.ret = OkUnit

\* a second insert of a pair the key already holds, among other lines and keys
InsertTwiceWitness ==
    /\ last.op = "insert"
    /\ pre = line_pairs
    /\ Cardinality(line_pairs[last.key]) >= 2
    /\ DOMAIN line_pairs = Keys

\* C2: extend(key, lines) maps key to its old set (empty when absent) united with
\* lines and keeps every other key's set; {a,b} extended by {b,c} is {a,b,c}.
ExtendIsUnion ==
    last.op = "extend" =>
        /\ last.key \in DOMAIN line_pairs
        /\ line_pairs[last.key] = SetOf(pre, last.key) \cup last.lines
        /\ OthersKept({last.key})
        /\ (SetOf(pre, last.key) = {LinePlain, LineMixed} /\ last.lines = {LineMixed, LineBad})
              => line_pairs[last.key] = {LinePlain, LineMixed, LineBad}
        /\ last.ret = OkUnit

\* extend(key, {b,c}) on a key holding {a,b}
ExtendOverlapWitness ==
    /\ last.op = "extend"
    /\ SetOf(pre, last.key) = {LinePlain, LineMixed}
    /\ last.lines = {LineMixed, LineBad}
    /\ line_pairs[last.key] = Lines

\* C3: load_hashmap(M) maps every key of M to its old set (empty when absent)
\* united with M[k], keeps every key not in M, and two loads give the same store
\* in either order.
LoadHashmapMerges ==
    last.op = "load_hashmap" =>
        /\ DOMAIN line_pairs = DOMAIN pre \cup DOMAIN last.map
        /\ \A k \in DOMAIN last.map : line_pairs[k] = SetOf(pre, k) \cup last.map[k]
        /\ OthersKept(DOMAIN last.map)
        /\ \A m \in LoadArgs :
              /\ load_hashmap(line_pairs, m) = load_hashmap(load_hashmap(pre, m), last.map)
              /\ \A k \in DOMAIN m \cap DOMAIN last.map :
                    load_hashmap(line_pairs, m)[k] = SetOf(pre, k) \cup last.map[k] \cup m[k]
        /\ last.ret = OkUnit

\* a load that shares a key with the store, each side holding a line the other lacks
LoadSharedKeyWitness ==
    /\ last.op = "load_hashmap"
    /\ \E k \in DOMAIN last.map \cap DOMAIN pre :
          /\ pre[k] \ last.map[k] # {}
          /\ last.map[k] \ pre[k] # {}
          /\ line_pairs[k] = pre[k] \cup last.map[k]
    /\ \E k \in DOMAIN pre : k \notin DOMAIN last.map

\* C4: get_line_raw returns Some(v) with v in the key's set when the key is
\* present with a non-empty set (the one variant of a singleton), and None
\* exactly when the key is absent or its set is empty.
GetLineRawReturnsMember ==
    last.op = "get_line_raw" =>
        /\ line_pairs = pre
        /\ last.ret.tag \in {"Some", "None"}
        /\ SetOf(pre, last.key) # {} => last.ret.tag = "Some" /\ last.ret.val \in pre[last.key]
        /\ last.ret = None <=> SetOf(pre, last.key) = {}
        /\ \A v \in Lines : SetOf(pre, last.key) = {v} => last.ret = Some(v)

\* a selection among several variants
GetLineRawWitness ==
    /\ last.op = "get_line_raw"
    /\ Cardinality(SetOf(pre, last.key)) >= 2
    /\ last.ret.tag = "Some"
    /\ last.ret.val \in pre[last.key]

\* C5: get_lines_raw(key) is None when no write ever named key and else the
\* union of the lines the writes supplied under key.
GetLinesRawIsUnionOfWrites ==
    /\ \A k \in Keys :
          get_lines_raw(line_pairs, k) = IF k \in named THEN SomeSet(supplied[k]) ELSE None
    /\ last.op = "get_lines_raw" =>
          /\ line_pairs = pre
          /\ last.ret = IF last.key \in named THEN SomeSet(supplied[last.key]) ELSE None

\* all lines of a key that several writes filled, read while another key was never written
GetLinesRawWitness ==
    /\ last.op = "get_lines_raw"
    /\ last.ret = SomeSet(Lines)
    /\ named # Keys

\* C6: render_line and get_line on an absent key return an error of a kind of its
\* own, which is neither the template compile error nor an error of the
\* compile or render step.
AbsentKeyErrorIsDistinct ==
    (last.op \in {"render_line", "get_line"} /\ last.key \notin DOMAIN pre) =>
        /\ last.ret.tag = "Err"
        /\ last.ret.err \notin {TemplateCompileError, MustacheParserError, MustacheRenderError}

\* what a line reads as once every placeholder is replaced, computed on the text
\* of the line in one pass: ok tells that the line is made of plain characters
\* and of placeholders {{{name}}} and {{name}} whose names the data supplies
Braces == {"{", "}"}

Entity == ("&" :> <<"&", "a", "m", "p", ";">>) @@ ("<" :> <<"&", "l", "t", ";">>)
              @@ (">" :> <<"&", "g", "t", ";">>)

RECURSIVE MarkupEscaped(_)
MarkupEscaped(v) ==
    IF v = <<>> THEN <<>>
    ELSE (IF Head(v) \in DOMAIN Entity THEN Entity[Head(v)] ELSE <<Head(v)>>)
             \o MarkupEscaped(Tail(v))

IsPrefix(pat, s) == Len(pat) <= Len(s) /\ SubSeq(s, 1, Len(pat)) = pat

Drop(s, n) == SubSeq(s, n + 1, Len(s))

RECURSIVE Substituted(_, _)
Substituted(raw, data) ==
    IF raw = <<>>
    THEN [ok |-> TRUE, out |-> <<>>]
    ELSE IF Head(raw) \notin Braces
    THEN LET r == Substituted(Tail(raw), data)
         IN  [ok |-> r.ok, out |-> <<Head(raw)>> \o r.out]
    ELSE IF \E name \in DOMAIN data : IsPrefix(Open3 \o name \o Close3, raw)
    THEN LET name == CHOOSE nm \in DOMAIN data : IsPrefix(Open3 \o nm \o Close3, raw)
             r == Substituted(Drop(raw, Len(name) + 6), data)
         IN  [ok |-> r.ok, out |-> data[name] \o r.out]
    ELSE IF \E name \in DOMAIN data : IsPrefix(Open2 \o name \o Close2, raw)
    THEN LET name == CHOOSE nm \in DOMAIN data : IsPrefix(Open2 \o nm \o Close2, raw)
             r == Substituted(Drop(raw, Len(name) + 4), data)
         IN  [ok |-> r.ok, out |-> MarkupEscaped(data[name]) \o r.out]
    ELSE [ok |-> FALSE, out |-> <<>>]

\* C7: render_line on a key with one well-formed variant, with data supplying
\* every placeholder, returns the variant's text with {{{name}}} replaced by the
\* value as it is and {{name}} by the value with & and < escaped, the text
\* between placeholders kept.
RenderLineSubstitutes ==
    (last.op = "render_line" /\ last.key \in DOMAIN pre) =>
        \A raw \in pre[last.key] :
            (pre[last.key] = {raw} /\ Substituted(raw, last.data).ok) =>
                /\ last.ret = Ok(Substituted(raw, last.data).out)
                /\ (raw = <<"K">> \o Open3 \o <<"e">> \o Close3 /\ last.data = DataFull)
                      => last.ret.val = <<"K", "a", "&">>
                /\ (raw = <<"K">> \o Open2 \o <<"e">> \o Close2 /\ last.data = DataFull)
                      => last.ret.val = <<"K", "a", "&", "a", "m", "p", ";">>
                /\ (raw = Open2 \o <<"l">> \o Close2 \o <<"&">> /\ last.data = DataFull)
                      => last.ret.val = <<"&", "l", "t", ";", "b", "&">>

\* "{{{e}}}&{{e}}" rendered with e = "a&": verbatim, literal text, escaped
RenderBothFormsWitness ==
    /\ last.op = "render_line"
    /\ last.key \in DOMAIN pre
    /\ pre[last.key] = {Open3 \o <<"e">> \o Close3 \o <<"&">> \o Open2 \o <<"e">> \o Close2}
    /\ last.data = DataFull
    /\ last.ret = Ok(<<"a", "&", "&", "a", "&", "a", "m", "p", ";">>)

\* C8: render_line runs no compile or render step for an absent key and no
\* render step when compiling the selected line fails, returns an error and no
\* string in every failing case, and leaves the store as it was.
RenderLineShortCircuits ==
    last.op = "render_line" =>
        /\ line_pairs = pre
        /\ last.key \notin DOMAIN pre =>
              ~last.compiled /\ ~last.rendered /\ last.ret.tag = "Err"
        /\ last.raw_line.tag = "None" =>
              ~last.compiled /\ ~last.rendered /\ last.ret.tag = "Err"
        /\ (last.raw_line.tag = "Some" /\ compile_str(last.raw_line.val).tag = "Err") =>
              last.compiled /\ ~last.rendered /\ last.ret.tag = "Err"
        /\ last.rendered => last.compiled /\ compile_str(last.raw_line.val).tag = "Ok"
        /\ last.ret.tag \in {"Ok", "Err"}
        /\ last.ret.tag = "Err" => last.ret.val = <<>>
        /\ last.ret.tag = "Ok" => last.rendered

\* the selected line fails to compile, in a store that holds other lines and keys
RenderCompileFailureWitness ==
    /\ last.op = "render_line"
    /\ last.raw_line = Some(LineBad)
    /\ last.compiled
    /\ ~last.rendered
    /\ last.ret = Err(MustacheParserError)
    /\ Cardinality(pre[last.key]) >= 2
    /\ DOMAIN line_pairs = Keys

\* C9 as stated: every key present has a non-empty set.
NoKeyHoldsEmptySet == \A k \in DOMAIN line_pairs : line_pairs[k] # {}

\* C9: a key holds the empty set only if extend was called on it with an empty
\* set; as long as no extend call passes an empty set, every key present has a
\* non-empty set.
EmptySetOnlyFromEmptyExtend ==
    /\ \A k \in DOMAIN line_pairs : line_pairs[k] = {} => k \in emptied
    /\ emptied = {} => \A k \in DOMAIN line_pairs : line_pairs[k] # {}

\* extend creates a key from a non-empty set, no call having passed an empty set
ExtendCreatesKeyWitness ==
    /\ last.op = "extend"
    /\ last.key \notin DOMAIN pre
    /\ last.lines # {}
    /\ emptied = {}
    /\ DOMAIN line_pairs = Keys
    /\ \A k \in DOMAIN line_pairs : line_pairs[k] # {}

\* C10: whatever the earlier calls returned, each variant of a key's current set
\* is a possible result of get_line_raw, and in every iteration order exactly
\* one of the N equally likely indices selects it.
EveryVariantSelectable ==
    \A k \in DOMAIN line_pairs :
        \A v \in line_pairs[k] :
            /\ ENABLED (GetLineRaw /\ last'.key = k /\ last'.ret = Some(v))
            /\ \A order \in IterOrders(line_pairs[k]) :
                  Cardinality({i \in Draws(line_pairs, k) :
                                  get_line_raw(line_pairs, k, order, i) = Some(v)}) = 1
            /\ Cardinality(Draws(line_pairs, k)) = Cardinality(line_pairs[k])

\* the same variant returned by two calls in a row though the key holds others
RepeatedSelectionWitness ==
    /\ last.op = "get_line_raw"
    /\ prev.key = last.key
    /\ prev.ret = last.ret
    /\ last.ret.tag = "Some"
    /\ Cardinality(line_pairs[last.key]) >= 2
====
